---- MODULE Spec2Model ----
(***************************************************************************)
(* TexTable: an array of cells plus row and column labels rendered as a    *)
(* LaTeX tabular environment.  The repository holds two copies of the      *)
(* class: the module src/src/tex_table.py and the package copy             *)
(* src/src/tex_table/tex_table.py.  The variable `variant' says which copy *)
(* an instance was built from; the operations below follow the copy.       *)
(*                                                                         *)
(* Python strings are TLA+ strings; an option value is a tagged record     *)
(* (bool, int or str) because the options dictionary is untyped.           *)
(***************************************************************************)
EXTENDS Integers, Sequences, FiniteSets, TLC

\* Number of mutating calls (set_option, set_options, T, interpret_p,
\* pipe) made on one instance after its construction.
MaxOps == 2

\* Largest number of columns of the tables built to exercise the column
\* specification.
MaxCols == 3

----------------------------------------------------------------------------
(* Python built-ins used by the class *)

CharAt(s, i) == SubSeq(s, i, i)

StartsWith(s, p) == Len(s) >= Len(p) /\ SubSeq(s, 1, Len(p)) = p

\* str.endswith
EndsWith(s, p) == Len(s) >= Len(p) /\ SubSeq(s, Len(s) - Len(p) + 1, Len(s)) = p

\* least element of a non-empty set of integers
Least(S) == CHOOSE i \in S : \A j \in S : i <= j

\* s.find(sub) counted from 1: where the first occurrence starts, 0 for none
Find(s, sub) ==
    LET at == {i \in 1..(Len(s) - Len(sub) + 1) : SubSeq(s, i, i + Len(sub) - 1) = sub}
    IN  IF at = {} THEN 0 ELSE Least(at)

\* `sub in s' for strings
Contains(s, sub) == Find(s, sub) # 0

\* str.replace: every non-overlapping occurrence, scanning left to right
RECURSIVE Replace(_, _, _)
Replace(s, old, new) ==
    LET p == Find(s, old)
    IN  IF p = 0 THEN s
        ELSE SubSeq(s, 1, p - 1) \o new \o Replace(SubSeq(s, p + Len(old), Len(s)), old, new)

\* s * n for a string s (the empty string when n <= 0)
RECURSIVE Repeat(_, _)
Repeat(s, n) == IF n <= 0 THEN "" ELSE s \o Repeat(s, n - 1)

\* sep.join(parts)
RECURSIVE Join(_, _)
Join(sep, parts) ==
    IF Len(parts) = 0 THEN ""
    ELSE IF Len(parts) = 1 THEN parts[1]
    ELSE parts[1] \o sep \o Join(sep, Tail(parts))

Digits == <<"0", "1", "2", "3", "4", "5", "6", "7", "8", "9">>

IsDigit(c) == \E d \in 1..10 : Digits[d] = c

DigitVal(c) == (CHOOSE d \in 1..10 : Digits[d] = c) - 1

AllDigits(s) == \A i \in 1..Len(s) : IsDigit(CharAt(s, i))

\* value of a non-empty string of decimal digits
RECURSIVE DigitsVal(_)
DigitsVal(s) ==
    IF Len(s) = 0 THEN 0
    ELSE 10 * DigitsVal(SubSeq(s, 1, Len(s) - 1)) + DigitVal(CharAt(s, Len(s)))

\* str(n) for a non-negative int
RECURSIVE NatToStr(_)
NatToStr(n) == IF n < 10 THEN Digits[n + 1] ELSE NatToStr(n \div 10) \o Digits[(n % 10) + 1]

\* str(n) for an int
IntToStr(n) == IF n < 0 THEN "-" \o NatToStr(0 - n) ELSE NatToStr(n)

----------------------------------------------------------------------------
(* Option values.  The options dictionary holds Python objects of any type; *)
(* the model keeps the three types the validation distinguishes.            *)

PyBool(b) == [t |-> "bool", n |-> IF b THEN 1 ELSE 0, s |-> ""]
PyIntV(i) == [t |-> "int", n |-> i, s |-> ""]
PyStr(x) == [t |-> "str", n |-> 0, s |-> x]

\* bool(v): the truth value `if v:' tests
Truthy(v) == IF v.t = "str" THEN v.s # "" ELSE v.n # 0

\* `v in (True, False)': equality with True or False, so 1 and 0 pass too
InTrueFalse(v) == v.t \in {"bool", "int"} /\ v.n \in {0, 1}

\* int() of the digits after the sign; ok = FALSE is the ValueError of int()
IntOfDigits(body, sign) ==
    IF Len(body) > 0 /\ AllDigits(body)
    THEN [ok |-> TRUE, n |-> sign * DigitsVal(body)]
    ELSE [ok |-> FALSE, n |-> 0]

\* int(v) for a str of an optional sign and decimal digits, a bool or an int
IntOf(v) ==
    IF v.t \in {"bool", "int"} THEN [ok |-> TRUE, n |-> v.n]
    ELSE IF StartsWith(v.s, "-") THEN IntOfDigits(Tail(v.s), -1)
    ELSE IF StartsWith(v.s, "+") THEN IntOfDigits(Tail(v.s), 1)
    ELSE IntOfDigits(v.s, 1)

----------------------------------------------------------------------------
(* Cell arithmetic.  A float is the record [ok, m, e]: the value is m       *)
(* thousandths times 10^e.  The cells and thresholds of the model have at   *)
(* most three decimals and are not negative; a cell written with an         *)
(* exponent has one non-zero digit before the dot and an exponent of at     *)
(* least 16, the magnitudes str() prints in exponent notation.              *)

Scale == 1000

\* a position p found in the part of a string that starts at i, as a
\* position of the string
DotFrom(p, i) == IF p = 0 THEN 0 ELSE p + i - 1

\* index of the first "." of s at or after position i, or 0
DotAt(s, i) == DotFrom(Find(SubSeq(s, i, Len(s)), "."), i)

\* digits of a fraction, right-padded to three places
Pad3(f) == IF Len(f) = 0 THEN "000" ELSE IF Len(f) = 1 THEN f \o "00"
           ELSE IF Len(f) = 2 THEN f \o "0" ELSE f

\* a float literal may group its digits with single underscores, each
\* between two digits
UnderscoresOk(s) ==
    \A i \in 1..Len(s) :
        CharAt(s, i) = "_" =>
            /\ 1 < i /\ i < Len(s)
            /\ IsDigit(CharAt(s, i - 1)) /\ IsDigit(CharAt(s, i + 1))

\* the float with integer digits ip and fraction digits fp
FloatOfParts(ip, fp) ==
    IF AllDigits(ip) /\ AllDigits(fp) /\ Len(ip) + Len(fp) > 0 /\ Len(fp) <= 3
    THEN [ok |-> TRUE, m |-> Scale * DigitsVal(ip) + DigitsVal(Pad3(fp)), e |-> 0]
    ELSE [ok |-> FALSE, m |-> 0, e |-> 0]

\* the literal without its underscores, split at the dot found at d
FloatOfSplit(u, d) ==
    IF d = 0 THEN FloatOfParts(u, "")
    ELSE FloatOfParts(SubSeq(u, 1, d - 1), SubSeq(u, d + 1, Len(u)))

FloatOfPlain(u) == FloatOfSplit(u, DotAt(u, 1))

\* the exponent of str() notation: digits after an optional "+", 16 or more
ExpOf(x) ==
    IF Len(x) \in 1..3 /\ AllDigits(x) /\ DigitsVal(x) >= 16 THEN DigitsVal(x) ELSE 0

\* the float with mantissa f and exponent e (0 for one the model has not)
FloatOfMant(f, e) ==
    IF f.ok /\ f.m >= Scale /\ f.m < 10 * Scale /\ e > 0 THEN [f EXCEPT !.e = e]
    ELSE [ok |-> FALSE, m |-> 0, e |-> 0]

\* the literal without its underscores, k being the place of its "e"
FloatOfExp(u, k) ==
    FloatOfMant(FloatOfPlain(SubSeq(u, 1, k - 1)),
                ExpOf(IF CharAt(u, k + 1) = "+" THEN SubSeq(u, k + 2, Len(u))
                      ELSE SubSeq(u, k + 1, Len(u))))

\* the literal without its underscores
FloatOfLiteral(u) == IF Find(u, "e") # 0 THEN FloatOfExp(u, Find(u, "e")) ELSE FloatOfPlain(u)

\* float(s): ok = FALSE is the ValueError of float()
FloatOf(s) ==
    IF UnderscoresOk(s) THEN FloatOfLiteral(Replace(s, "_", ""))
    ELSE [ok |-> FALSE, m |-> 0, e |-> 0]

RECURSIVE Pow10(_)
Pow10(k) == IF k <= 0 THEN 1 ELSE 10 * Pow10(k - 1)

\* Thousandths that are a rounding tie in decimal but whose double lies
\* above the decimal value (0.05 is 0.05000000000000000277...), so that
\* round() goes up.  Every other tie of the model's cells is a dyadic
\* fraction, which round() resolves to the even neighbour.
DoubleAbove == {50}

\* m rounded to a multiple of q, ties as round() resolves them
RoundToUnit(m, q) ==
    LET lo == (m \div q) * q
        rem == m % q
    IN  IF 2 * rem < q THEN lo
        ELSE IF 2 * rem > q THEN lo + q
        ELSE IF m \in DoubleAbove THEN lo + q
        ELSE IF (lo \div q) % 2 = 0 THEN lo ELSE lo + q

\* round(f, nd) for nd >= 0
RoundTo(m, nd) == IF nd >= 3 THEN m ELSE RoundToUnit(m, Pow10(3 - nd))

\* strip trailing zeros, keeping one digit
RECURSIVE StripZeros(_)
StripZeros(f) ==
    IF Len(f) > 1 /\ EndsWith(f, "0") THEN StripZeros(SubSeq(f, 1, Len(f) - 1)) ELSE f

\* str(f) of a float: shortest decimal, always with a fractional part
FloatStr(m) ==
    NatToStr(m \div Scale) \o "."
    \o StripZeros((IF m % Scale < 10 THEN "00" ELSE IF m % Scale < 100 THEN "0" ELSE "")
                  \o NatToStr(m % Scale))

\* str(f) of a float of 1e16 or more: the shortest mantissa, without a
\* fractional part when it is a whole number, then e+ and the exponent
FloatStrExp(m, e) ==
    (IF m % Scale = 0 THEN NatToStr(m \div Scale) ELSE FloatStr(m))
    \o "e+" \o NatToStr(e)

----------------------------------------------------------------------------
(* The object.  An instance is the record                                   *)
(*   [table, row_index, col_index, options, sig]                            *)
(* table: rows of cells, row_index / col_index: labels, options: the        *)
(* dictionary (a function from option names to values), sig: the            *)
(* significance markers, a list of lists of strings.                        *)

OptionNames ==
    {"align", "measure", "hline", "vline", "box", "row_index", "bold_row_index",
     "row_index_start", "col_index", "bold_col_index", "col_index_start",
     "round", "make_ints", "tab_indent", "sig_char"}

\* the defaults __init__ stores
DefaultOptions ==
    [k \in OptionNames |->
        CASE k = "align" -> PyStr("c")
          [] k = "measure" -> PyStr("1cm")
          [] k = "hline" -> PyStr("all")
          [] k = "vline" -> PyStr("all")
          [] k = "box" -> PyStr("all")
          [] k = "row_index" -> PyBool(TRUE)
          [] k = "bold_row_index" -> PyBool(TRUE)
          [] k = "row_index_start" -> PyIntV(1)
          [] k = "col_index" -> PyBool(TRUE)
          [] k = "bold_col_index" -> PyBool(TRUE)
          [] k = "col_index_start" -> PyIntV(1)
          [] k = "round" -> PyIntV(0 - 1)
          [] k = "make_ints" -> PyBool(TRUE)
          [] k = "tab_indent" -> PyIntV(4)
          [] k = "sig_char" -> PyStr("*")]

NRows(st) == Len(st.table)
NCols(st) == Len(st.table[1])

\* v is the str x
IsStr(v, x) == v.t = "str" /\ v.s = x

\* v in (a tuple of str literals)
InStrs(v, xs) == v.t = "str" /\ v.s \in xs

\* the units of the measure pattern MR; the alternative \baselineskip of the
\* pattern starts with a word boundary that never holds after a digit
Units ==
    {"pt", "mm", "cm", "in", "ex", "em", "mu", "sp", "\\columnsep", "\\columnwidth",
     "\\evensidemargin", "\\linewidth", "\\oddsidemargin", "\\paperheight",
     "\\paperwidth", "\\parindent", "\\parskip", "\\tabcolsep", "\\textheight",
     "\\textwidth", "\\topmargin"}

\* other: the positions of s that hold neither a digit nor a dot
NumPrefixOf(s, other) == IF other = {} THEN Len(s) ELSE Least(other) - 1

\* length of the longest prefix of s made of digits and dots
NumPrefix(s) ==
    NumPrefixOf(s, {i \in 1..Len(s) : ~(IsDigit(CharAt(s, i)) \/ CharAt(s, i) = ".")})

\* num matches \d*\.?\d+, d being the place of its first dot
MatchMRNum(num, d) ==
    /\ Len(num) >= 1
    /\ IsDigit(CharAt(num, Len(num)))
    /\ (d = 0 \/ DotAt(num, d + 1) = 0)

MatchMRAt(s, k) ==
    /\ MatchMRNum(SubSeq(s, 1, k), DotAt(SubSeq(s, 1, k), 1))
    /\ SubSeq(s, k + 1, Len(s)) \in Units

\* re.match(self.MR, s): \d*\.?\d+ followed by one unit
MatchMR(s) == MatchMRAt(s, NumPrefix(s))

\* the box test of __validate: 'all', 'none' or a str with one of t, b, l, r
ValidBox(box) ==
    \/ InStrs(box, {"all", "none"})
    \/ \E side \in {"t", "b", "l", "r"} : Contains(box.s, side)

\* o[k] = int(o[k]), i being the outcome of int()
CoerceIntTo(o, k, i) ==
    IF i.ok THEN [ok |-> TRUE, o |-> [o EXCEPT ![k] = PyIntV(i.n)]]
    ELSE [ok |-> FALSE, o |-> o]

\* `if type(o[k]) != int: try o[k] = int(o[k]) except: raise ValueError'
CoerceInt(o, k) ==
    IF o[k].t = "int" THEN [ok |-> TRUE, o |-> o] ELSE CoerceIntTo(o, k, IntOf(o[k]))

\* the `validate row index' / `validate column index' block, run only when
\* the display option is truthy
ValidateIndex(o, shown, labels, n, boldKey, startKey) ==
    IF ~Truthy(o[shown]) THEN [ok |-> TRUE, o |-> o]
    ELSE IF Len(labels) # n THEN [ok |-> FALSE, o |-> o]
    ELSE IF ~InTrueFalse(o[boldKey]) THEN [ok |-> FALSE, o |-> o]
    ELSE CoerceInt(o, startKey)

\* the make_ints test that follows a successful int(round)
ValidateMakeInts(c) ==
    IF c.ok /\ ~InTrueFalse(c.o["make_ints"]) THEN [ok |-> FALSE, o |-> c.o] ELSE c

\* the `validate round and make_ints' block: make_ints is looked at only
\* inside the branch taken when round is not already an int
ValidateRound(o) ==
    IF o["round"].t = "int" THEN [ok |-> TRUE, o |-> o]
    ELSE ValidateMakeInts(CoerceInt(o, "round"))

\* The blocks of __validate, in the order of the code.  Each takes and
\* returns the record [st, err, warn]: the state so far (coercions done
\* before a failure stay), the exception raised ("" for none) and whether
\* a warning was issued.  A block after an exception does nothing.
Raised(r, e) == [r EXCEPT !.err = e]

\* one integer or index block: c is what the block made of the options
ValidateBlock(r, c) ==
    IF r.err # "" THEN r
    ELSE [st |-> [r.st EXCEPT !.options = c.o],
          err |-> IF c.ok THEN "" ELSE "ValueError",
          warn |-> r.warn]

ValidateAlign(r) ==
    IF ~InStrs(r.st.options["align"], {"c", "l", "r", "p", "m", "b"})
    THEN [r EXCEPT !.warn = TRUE] ELSE r

ValidateMeasure(r) ==
    IF ~InStrs(r.st.options["align"], {"p", "m", "b"}) THEN r
    ELSE IF r.st.options["measure"].t # "str" THEN Raised(r, "TypeError")
    ELSE IF ~MatchMR(r.st.options["measure"].s) THEN [r EXCEPT !.warn = TRUE]
    ELSE r

ValidateLines(r) ==
    IF r.err # "" THEN r
    ELSE IF ~InStrs(r.st.options["hline"], {"all", "header", "none"}) THEN Raised(r, "ValueError")
    ELSE IF ~InStrs(r.st.options["vline"], {"all", "index", "none"}) THEN Raised(r, "ValueError")
    ELSE IF r.st.options["box"].t # "str" THEN Raised(r, "TypeError")
    ELSE IF ~ValidBox(r.st.options["box"]) THEN Raised(r, "ValueError")
    ELSE r

ValidateRowIndex(r) ==
    IF r.err # "" THEN r
    ELSE ValidateBlock(r, ValidateIndex(r.st.options, "row_index", r.st.row_index, NRows(r.st),
                                        "bold_row_index", "row_index_start"))

ValidateColIndex(r) ==
    IF r.err # "" THEN r
    ELSE ValidateBlock(r, ValidateIndex(r.st.options, "col_index", r.st.col_index, NCols(r.st),
                                        "bold_col_index", "col_index_start"))

ValidateRoundBlock(r) ==
    IF r.err # "" THEN r ELSE ValidateBlock(r, ValidateRound(r.st.options))

ValidateTabIndent(r) ==
    IF r.err # "" THEN r ELSE ValidateBlock(r, CoerceInt(r.st.options, "tab_indent"))

ValidateSigChar(r) ==
    IF r.err # "" THEN r
    ELSE IF r.st.options["sig_char"].t # "str" THEN Raised(r, "ValueError")
    ELSE IF Len(r.st.options["sig_char"].s) # 1 THEN [r EXCEPT !.warn = TRUE]
    ELSE r

\* __validate.  The table is 2-D and the labels are 1-D strings in every
\* state of the model, so __validate_table, __validate_indices and astype
\* change nothing.
Validate(st) ==
    ValidateSigChar(ValidateTabIndent(ValidateRoundBlock(ValidateColIndex(ValidateRowIndex(
        ValidateLines(ValidateMeasure(ValidateAlign(
            [st |-> st, err |-> "", warn |-> FALSE]))))))))

----------------------------------------------------------------------------
(* Rendering: __round and __str__ *)

\* `if make_ints and obj.endswith('.0'): obj = str(int(obj[:-2]))'
MakeInts(o, r) ==
    IF Truthy(o["make_ints"]) /\ EndsWith(r, ".0")
    THEN IntToStr(IntOf(PyStr(SubSeq(r, 1, Len(r) - 2))).n)
    ELSE r

\* f is float(cell); round() of a float of 1e16 or more is that float
RoundFloat(o, cell, f) ==
    IF ~f.ok THEN cell
    ELSE IF f.e > 0 THEN MakeInts(o, FloatStrExp(f.m, f.e))
    ELSE MakeInts(o, FloatStr(RoundTo(f.m, o["round"].n)))

\* __round on one cell (a numpy str, whose round attempt raises): with
\* round >= 0, str(round(float(cell), round)), then the trailing ".0" is
\* cut when make_ints is truthy; a cell float() rejects is returned as is
Round(o, cell) == IF o["round"].n >= 0 THEN RoundFloat(o, cell, FloatOf(cell)) ELSE cell

\* ' ' * tab_indent + '\\hline\n'
HlineStr(o) == Repeat(" ", o["tab_indent"].n) \o "\\hline\n"

BoxHas(o, side) == Contains(o["box"].s, side) \/ IsStr(o["box"], "all")

\* the code of one column
ColCode(o) ==
    o["align"].s
    \o (IF InStrs(o["align"], {"p", "m"}) THEN "{" \o o["measure"].s \o "}" ELSE "")
    \o (IF IsStr(o["vline"], "all") THEN "|" ELSE "")

\* Fault injected for C21: a right border appended without looking at the
\* separator the last column code may end with.
RightBorderAppend(o, s) == IF BoxHas(o, "r") THEN s \o "|" ELSE s

\* the right border, s being the text before it
RightBorder(o, s) ==
    IF BoxHas(o, "r") THEN (IF EndsWith(s, "|") THEN s ELSE s \o "|")
    ELSE (IF EndsWith(s, "|") THEN SubSeq(s, 1, Len(s) - 1) ELSE s)

\* the text up to and including the column codes' closing brace
ColumnCodes(st) ==
    RightBorder(st.options,
        Replace("\nTable:\n\n\\begin{tabular}{"
                \o (IF BoxHas(st.options, "l") THEN "|" ELSE "")
                \o (IF Truthy(st.options["row_index"])
                    THEN ColCode(st.options)
                         \o (IF InStrs(st.options["vline"], {"index", "all"}) THEN "|" ELSE "")
                    ELSE "")
                \o Repeat(ColCode(st.options), NCols(st)),
                "||", "|"))
    \o "}\n"

\* Fault injected for C2: a column index line without the empty field that
\* stands above the row labels.
HeaderStrNoCorner(st) ==
    LET o == st.options
        join_list == IF Truthy(o["bold_col_index"])
                     THEN [j \in 1..Len(st.col_index) |-> "\\textbf{" \o st.col_index[j] \o "}"]
                     ELSE st.col_index
    IN  IF Truthy(o["col_index"])
        THEN Repeat(" ", o["tab_indent"].n)
             \o Join(" & ", join_list) \o " \\\\\n"
             \o (IF InStrs(o["hline"], {"header", "all"}) THEN HlineStr(o) ELSE "")
        ELSE ""

\* the column index line and the rule after it
HeaderStr(st) ==
    LET o == st.options
        join_list == IF Truthy(o["bold_col_index"])
                     THEN [j \in 1..Len(st.col_index) |-> "\\textbf{" \o st.col_index[j] \o "}"]
                     ELSE st.col_index
    IN  IF Truthy(o["col_index"])
        THEN Repeat(" ", o["tab_indent"].n)
             \o (IF Truthy(o["row_index"]) THEN " & " ELSE "")
             \o Join(" & ", join_list) \o " \\\\\n"
             \o (IF InStrs(o["hline"], {"header", "all"}) THEN HlineStr(o) ELSE "")
        ELSE ""

\* one pass of the loop over the rows
RowStr(st, i) ==
    LET o == st.options
    IN  Repeat(" ", o["tab_indent"].n)
        \o (IF Truthy(o["row_index"])
            THEN (IF Truthy(o["bold_row_index"])
                  THEN "\\textbf{" \o st.row_index[i] \o "} & "
                  ELSE st.row_index[i] \o " & ")
            ELSE "")
        \o Join(" & ", [j \in 1..Len(st.table[i]) |-> Round(o, st.table[i][j]) \o st.sig[i][j]])
        \o " \\\\\n"
        \o (IF IsStr(o["hline"], "all") THEN HlineStr(o) ELSE "")

RECURSIVE RowsStr(_, _)
RowsStr(st, i) == IF i > NRows(st) THEN "" ELSE RowStr(st, i) \o RowsStr(st, i + 1)

\* the exception the loop over the rows raises at row i, "" for none:
\* row_index[i] out of range, `round >= 0' on a str, sig[i][j] out of range
RowErr(st, i) ==
    LET o == st.options
    IN  IF Truthy(o["row_index"]) /\ i > Len(st.row_index) THEN "IndexError"
        ELSE IF o["round"].t = "str" THEN "TypeError"
        ELSE IF i > Len(st.sig) THEN "IndexError"
        ELSE IF Len(st.table[i]) > Len(st.sig[i]) THEN "IndexError"
        ELSE ""

RECURSIVE RowsErr(_, _)
RowsErr(st, i) ==
    IF i > NRows(st) THEN ""
    ELSE IF RowErr(st, i) = "" THEN RowsErr(st, i + 1)
    ELSE RowErr(st, i)

\* the exception the string assembly raises, "" for none
StrErr(st) ==
    LET o == st.options
    IN  IF o["box"].t # "str" \/ o["align"].t # "str" THEN "TypeError"
        ELSE IF InStrs(o["align"], {"p", "m"}) /\ o["measure"].t # "str" THEN "TypeError"
        ELSE IF o["tab_indent"].t = "str" THEN "TypeError"
        ELSE RowsErr(st, 1)

\* Fault injected for C8: only the first underscore is escaped.
EscapeFirst(s) ==
    LET p == Find(s, "_")
    IN  IF p = 0 THEN s ELSE SubSeq(s, 1, p - 1) \o "\\_" \o SubSeq(s, p + 1, Len(s))

\* s.replace('_', '\\_')
Escape(s) == Replace(s, "_", "\\_")

\* Fault injected for C20: the bottom rule is added even after a rule.
BottomRuleAlways(o, body) == IF BoxHas(o, "b") THEN body \o HlineStr(o) ELSE body

\* the bottom rule, unless the text already ends with a rule
BottomRule(o, body) ==
    IF BoxHas(o, "b") /\ ~EndsWith(body, "\\hline\n") THEN body \o HlineStr(o) ELSE body

\* the string the assembly returns when it raises nothing
StrOf(st) ==
    Escape(BottomRule(st.options,
                      ColumnCodes(st)
                      \o (IF BoxHas(st.options, "t") THEN HlineStr(st.options) ELSE "")
                      \o HeaderStr(st)
                      \o RowsStr(st, 1))
           \o "\\end{tabular}\n")

\* the string assembly, e being the exception it raises
StrBuild(st, e) ==
    IF e # "" THEN [st |-> st, err |-> e, s |-> ""]
    ELSE [st |-> st, err |-> "", s |-> StrOf(st)]

\* the string assembly after the __validate call with outcome val
StrAfter(val) ==
    IF val.err # "" THEN [st |-> val.st, err |-> val.err, s |-> ""]
    ELSE StrBuild(val.st, StrErr(val.st))

\* __str__: the package copy validates first, the module copy does not.
\* Result: the state left behind, the exception and the returned string.
Str(v, st) == IF v = "package" THEN StrAfter(Validate(st)) ELSE StrBuild(st, StrErr(st))

----------------------------------------------------------------------------
(* The methods, as functions from a state to the state left behind, the     *)
(* exception raised ("" for none) and whether a warning was issued.         *)

\* astype(str) on one element
AsStr(x) ==
    IF x.t = "str" THEN x.s
    ELSE IF x.t = "int" THEN IntToStr(x.n)
    ELSE IF x.n = 1 THEN "True" ELSE "False"

\* array(range(a, b))
Range(a, b) == [i \in 1..(b - a) |-> PyIntV(a + i - 1)]

\* Fault injected for C5: an unknown option name raises instead of warning.
SetOptionStrict(st, option, value) ==
    IF option \in DOMAIN st.options
    THEN Validate([st EXCEPT !.options[option] = value])
    ELSE [st |-> st, err |-> "ValueError", warn |-> FALSE]

\* set_option
SetOption(st, option, value) ==
    IF option \in DOMAIN st.options
    THEN Validate([st EXCEPT !.options[option] = value])
    ELSE [st |-> st, err |-> "", warn |-> TRUE]

\* the loop of set_options: known keys are stored, unknown keys warn
RECURSIVE StoreOptions(_, _, _)
StoreOptions(o, dict, i) ==
    IF i > Len(dict) THEN o
    ELSE LET key == dict[i][1]
         IN  StoreOptions(IF key \in DOMAIN o THEN [o EXCEPT ![key] = dict[i][2]] ELSE o,
                          dict, i + 1)

\* the outcome val of a call, a warning added when w
WarnIf(val, w) == [val EXCEPT !.warn = val.warn \/ w]

\* set_options; a dict is the sequence of its (key, value) items
SetOptions(st, dict) ==
    WarnIf(Validate([st EXCEPT !.options = StoreOptions(st.options, dict, 1)]),
           \E i \in 1..Len(dict) : dict[i][1] \notin DOMAIN st.options)

RECURSIVE InitOptions(_, _, _, _)
\* r is the outcome of the set_option call for item i
InitOptionsNext(r, dict, i, w) ==
    IF r.err # "" THEN WarnIf(r, w) ELSE InitOptions(r.st, dict, i + 1, w \/ r.warn)

\* the loop of __init__ over the options argument: one set_option per key,
\* the first exception ends the construction
InitOptions(st, dict, i, w) ==
    IF i > Len(dict) THEN [st |-> st, err |-> "", warn |-> w]
    ELSE InitOptionsNext(SetOption(st, dict[i][1], dict[i][2]), dict, i, w)

\* Fault injected for C9: a 1-D array becomes one column, reshape(-1, 1).
PromoteColumn(ndim, t) == IF ndim = 1 THEN [i \in 1..Len(t) |-> <<t[i]>>] ELSE t

\* __validate_table on an array of 1 or 2 dimensions: reshape(1, -1) of a
\* 1-D array, a 2-D array as it is
Promote(ndim, t) == IF ndim = 1 THEN <<t>> ELSE t

\* __set_row_index / __set_col_index: the labels given, or the numbers
\* start .. start + n - 1
GeneratedLabels(given, n, start) == IF given.given THEN given.v ELSE Range(start, n + start)

\* the final __validate of __init__
ConstructValidate(r1) == IF r1.err # "" THEN r1 ELSE WarnIf(Validate(r1.st), r1.warn)

\* st0 is the instance before the options argument is applied
ConstructOptions(inp, st0) == ConstructValidate(InitOptions(st0, inp.options, 1, FALSE))

\* grid is the 2-D array, ri and ci are the labels before astype(str)
ConstructFrom(inp, grid, ri, ci) ==
    ConstructOptions(inp,
        [table |-> [i \in 1..Len(grid) |-> [j \in 1..Len(grid[1]) |-> AsStr(grid[i][j])]],
         row_index |-> [i \in 1..Len(ri) |-> AsStr(ri[i])],
         col_index |-> [j \in 1..Len(ci) |-> AsStr(ci[j])],
         options |-> DefaultOptions,
         sig |-> [i \in 1..Len(grid) |-> [j \in 1..Len(grid[1]) |-> ""]]])

\* the labels come from the default start offsets
ConstructGrid(inp, grid) ==
    ConstructFrom(inp, grid,
                  GeneratedLabels(inp.row_index, Len(grid), DefaultOptions["row_index_start"].n),
                  GeneratedLabels(inp.col_index, Len(grid[1]), DefaultOptions["col_index_start"].n))

\* what __init__ has assigned when __validate_table raises: the array as
\* given and the default options, no labels and no markers yet
Unbuilt(inp) ==
    [table |-> inp.table, row_index |-> <<>>, col_index |-> <<>>,
     options |-> DefaultOptions, sig |-> <<>>]

\* __init__ for a list input (no DataFrame).  __validate_table raises for
\* an array of 3 or more dimensions, whatever their lengths; otherwise the
\* labels are generated before the options argument is looked at.
Construct(inp) ==
    IF inp.ndim \in {1, 2} THEN ConstructGrid(inp, Promote(inp.ndim, inp.table))
    ELSE [st |-> Unbuilt(inp), err |-> "ValueError", warn |-> FALSE]

\* numpy's .T of the 2-D array
Transposed(t) == [j \in 1..Len(t[1]) |-> [i \in 1..Len(t) |-> t[i][j]]]

\* T: the module copy swaps three option pairs, the package copy two; sig
\* is not touched
T(v, st) ==
    LET o == st.options
        o1 == [o EXCEPT !["row_index"] = o["col_index"],
                        !["col_index"] = o["row_index"],
                        !["bold_row_index"] = o["bold_col_index"],
                        !["bold_col_index"] = o["bold_row_index"]]
        o2 == IF v = "module"
              THEN [o1 EXCEPT !["row_index_start"] = o["col_index_start"],
                              !["col_index_start"] = o["row_index_start"]]
              ELSE o1
    IN  Validate([st EXCEPT !.table = Transposed(st.table),
                            !.row_index = st.col_index,
                            !.col_index = st.row_index,
                            !.options = o2])

\* number of thresholds the value passes: f <= t in the module copy,
\* f < t in the package copy
RECURSIVE Passed(_, _, _, _)
Passed(v, m, thresholds, k) ==
    IF k > Len(thresholds) THEN 0
    ELSE (IF (IF v = "module" THEN m <= thresholds[k] ELSE m < thresholds[k]) THEN 1 ELSE 0)
         + Passed(v, m, thresholds, k + 1)

\* the marker interpret_p leaves in sig[i][j]; every exception inside the
\* try (float() of the cell, += of a sig_char that is no str) leaves "".
\* f is float() of the cell; one of 1e16 or more passes no threshold.
MarkerOf(v, st, f, reset, thresholds) ==
    IF reset \/ ~f.ok \/ st.options["sig_char"].t # "str" THEN ""
    ELSE IF f.e > 0 THEN ""
    ELSE Repeat(st.options["sig_char"].s, Passed(v, f.m, thresholds, 1))

\* the marker of cell (i, j)
Marker(v, st, i, j, reset, thresholds) ==
    MarkerOf(v, st, FloatOf(st.table[i][j]), reset, thresholds)

\* interpret_p: the loops run over the shape of the table; an index that
\* sig does not have raises inside the try and the entry is skipped
InterpretP(v, st, reset, thresholds) ==
    [st |-> [st EXCEPT !.sig =
                [i \in 1..Len(st.sig) |->
                    [j \in 1..Len(st.sig[i]) |->
                        IF i <= NRows(st) /\ j <= NCols(st)
                        THEN Marker(v, st, i, j, reset, thresholds)
                        ELSE st.sig[i][j]]]],
     err |-> "", warn |-> FALSE]

\* write(file): the module copy writes str(self); the package copy calls
\* __validate first (val is its outcome) and then writes str(self).  The
\* result is the state left behind, the exception and the text written.
WriteAfter(val) ==
    IF val.err # "" THEN [st |-> val.st, err |-> val.err, s |-> ""]
    ELSE Str("package", val.st)

Write(v, st) == IF v = "package" THEN WriteAfter(Validate(st)) ELSE Str("module", st)

\* The outcome of pipe: the state left behind, the exception raised, whether
\* a warning was issued, the text printed, the text written to the file and
\* the step that raised ("" when pipe returned self).
PipeEnd(st, e, w, printed, written, at) ==
    [st |-> st, err |-> e, warn |-> w, printed |-> printed, written |-> written, at |-> at]

\* w is the outcome of `self.write(file)'
PipeWritten(r, printed, w) ==
    PipeEnd(w.st, w.err, r.warn, printed, w.s, IF w.err # "" THEN "write" ELSE "")

\* `if write: self.write(file)' in the module copy, `self.write(file)' in
\* the package copy, and `return self'
PipeWrite(v, p, r, printed) ==
    IF p.write THEN PipeWritten(r, printed, Write(v, r.st))
    ELSE PipeEnd(r.st, "", r.warn, printed, "", "")

\* s is the outcome of str(self) inside print(self)
PipePrinted(v, p, r, s) ==
    IF s.err # "" THEN PipeEnd(s.st, s.err, r.warn, "", "", "print")
    ELSE PipeWrite(v, p, [r EXCEPT !.st = s.st], s.s)

\* `if print: print(self)': in the module copy `print' is the parameter of
\* pipe, a bool, and calling it raises TypeError; the package copy has no
\* such parameter and calls the built-in
PipePrint(v, p, r) ==
    IF v = "module"
    THEN (IF p.print THEN PipeEnd(r.st, "TypeError", r.warn, "", "", "print")
          ELSE PipeWrite(v, p, r, ""))
    ELSE PipePrinted(v, p, r, Str(v, r.st))

\* `if interpret_p: self.interpret_p(reset, thresholds)'
PipeInterpret(v, p, r) ==
    IF p.interpret_p
    THEN PipePrint(v, p, WarnIf(InterpretP(v, r.st, p.reset, p.thresholds), r.warn))
    ELSE PipePrint(v, p, r)

\* r is the outcome of `self.set_options(options)'
PipeOptioned(v, p, r) ==
    IF r.err # "" THEN PipeEnd(r.st, r.err, r.warn, "", "", "set_options")
    ELSE PipeInterpret(v, p, r)

\* `if options is not None: self.set_options(options)', r being the outcome
\* of the transpose step
PipeOptions(v, p, r) ==
    IF r.err # "" THEN PipeEnd(r.st, r.err, r.warn, "", "", "T")
    ELSE IF p.given THEN PipeOptioned(v, p, WarnIf(SetOptions(r.st, p.options), r.warn))
    ELSE PipeInterpret(v, p, r)

\* pipe: `if transpose: self.T()' and the steps after it
Pipe(v, st, p) ==
    PipeOptions(v, p, IF p.transpose THEN T(v, st)
                      ELSE [st |-> st, err |-> "", warn |-> FALSE])

----------------------------------------------------------------------------
(* Inputs of the model *)

None == [given |-> FALSE, v |-> <<>>]
Labels(xs) == [given |-> TRUE, v |-> [i \in 1..Len(xs) |-> PyStr(xs[i])]]

\* [[1, 2, 3], [4, 5, 6]]
Ints23 == <<<<PyIntV(1), PyIntV(2), PyIntV(3)>>, <<PyIntV(4), PyIntV(5), PyIntV(6)>>>>
\* ['0.001', 'a_b', '0.01']
Vec3 == <<PyStr("0.001"), PyStr("a_b"), PyStr("0.01")>>
\* [['1_0', '0.05'], ['n_a', '2.5']]
Mixed22 == <<<<PyStr("1_0"), PyStr("0.05")>>, <<PyStr("n_a"), PyStr("2.5")>>>>

\* [[[1]], [[2]], [[3]], [[4]]], of shape (4, 1, 1)
Cube411 == <<<<<<PyIntV(1)>>>>, <<<<PyIntV(2)>>>>, <<<<PyIntV(3)>>>>, <<<<PyIntV(4)>>>>>>
\* [[[1, 2], [3, 4]]], of shape (1, 2, 2)
Cube122 == <<<<<<PyIntV(1), PyIntV(2)>>, <<PyIntV(3), PyIntV(4)>>>>>>

\* ['1e16', '2.0']
Big2 == <<PyStr("1e16"), PyStr("2.0")>>

\* row labels hidden, with a numeric string as their start offset
HiddenRows == <<<<"row_index", PyBool(FALSE)>>, <<"row_index_start", PyStr("2")>>>>

NoIndex == <<<<"row_index", PyBool(FALSE)>>, <<"col_index", PyBool(FALSE)>>>>

\* start offsets other than the default
Offsets == <<<<"row_index_start", PyIntV(2)>>, <<"col_index_start", PyIntV(3)>>>>

\* a plain style: no rules, no bold labels, paragraph columns, rounding
Plain ==
    <<<<"hline", PyStr("none")>>, <<"vline", PyStr("none")>>, <<"box", PyStr("none")>>,
      <<"align", PyStr("p")>>, <<"bold_row_index", PyBool(FALSE)>>,
      <<"bold_col_index", PyBool(FALSE)>>, <<"round", PyIntV(0)>>,
      <<"make_ints", PyBool(FALSE)>>, <<"sig_char", PyStr("+")>>>>

Input(nd, t, ri, ci, opts) ==
    [ndim |-> nd, table |-> t, row_index |-> ri, col_index |-> ci, options |-> opts]

\* the constructor calls of the model, in a list: the copy of the class
\* and the arguments.  Row labels of length 2 on a table of one row are
\* the mismatching ones.
ConstructCalls ==
    <<<<"module", Input(2, Ints23, None, None, <<>>)>>,
     <<"module", Input(2, Ints23, None, None, NoIndex)>>,
     <<"module", Input(2, Ints23, None, None, Offsets)>>,
     <<"module", Input(1, Big2, None, None, <<<<"round", PyIntV(0)>>>>)>>,
     <<"module", Input(3, Cube411, None, None, <<>>)>>,
     <<"module", Input(3, Cube122, None, None, <<>>)>>,
     <<"module", Input(1, Vec3, None, None, <<>>)>>,
     <<"module", Input(1, Vec3, Labels(<<"r_1", "r2">>), None, HiddenRows)>>,
     <<"module", Input(2, Mixed22, Labels(<<"r_1", "r2">>), Labels(<<"c_1", "c2">>), Plain)>>,
     <<"module", Input(1, Vec3, Labels(<<"r_1", "r2">>), None, <<>>)>>,
     <<"module", Input(2, Ints23, None, None, <<<<"hline", PyStr("rows")>>>>)>>,
     <<"package", Input(1, Vec3, None, None, <<>>)>>,
     <<"package", Input(1, Vec3, Labels(<<"r_1", "r2">>), None, HiddenRows)>>>>

\* the (option, value) arguments of set_option
OptionChoices ==
    {<<"hline", PyStr("rows")>>,
     <<"vline", PyStr("cols")>>,
     <<"box", PyStr("x")>>,
     <<"measure", PyIntV(5)>>,
     <<"row_index", PyBool(FALSE)>>, <<"row_index", PyBool(TRUE)>>,
     <<"col_index", PyBool(FALSE)>>,
     <<"bold_row_index", PyStr("yes")>>,
     <<"row_index_start", PyStr("abc")>>,
     <<"round", PyIntV(1)>>, <<"round", PyStr("abc")>>,
     <<"make_ints", PyStr("yes")>>,
     <<"tab_indent", PyStr("abc")>>,
     <<"colour", PyStr("red")>>}

\* the dict arguments of set_options
DictChoices ==
    {<<<<"hline", PyStr("header")>>, <<"vline", PyStr("index")>>,
       <<"box", PyStr("tl")>>, <<"round", PyStr("0")>>, <<"tab_indent", PyStr("0")>>>>,
     <<<<"colour", PyStr("red")>>, <<"hline", PyStr("none")>>>>,
     <<<<"vline", PyStr("cols")>>, <<"round", PyStr("0")>>>>}

\* the thresholds arguments of interpret_p, in thousandths; the first is
\* the default (0.05, 0.01, 0.001)
ThresholdChoices == {<<50, 10, 1>>}

\* the arguments of pipe; given says that options is not None
PipeArgs(tr, given, options, ip, reset, thresholds, pr, wr) ==
    [transpose |-> tr, given |-> given, options |-> options, interpret_p |-> ip,
     reset |-> reset, thresholds |-> thresholds, print |-> pr, write |-> wr]

\* options for pipe: another marker character, row labels off
Plus == <<<<"sig_char", PyStr("+")>>, <<"row_index", PyBool(FALSE)>>>>

\* the pipe calls of the model: pipe(transpose=True, interpret_p=True,
\* reset=True, print=False) and pipe(transpose=True, options=Plus,
\* interpret_p=True), the other arguments at their defaults
PipeChoices ==
    {PipeArgs(TRUE, FALSE, <<>>, TRUE, TRUE, <<50, 10, 1>>, FALSE, TRUE),
     PipeArgs(TRUE, TRUE, Plus, TRUE, FALSE, <<50, 10, 1>>, TRUE, TRUE)}

----------------------------------------------------------------------------
(* The state machine *)

VARIABLES
    variant,    \* "module" or "package": the copy of the class in use
    arg,        \* the arguments the constructor was called with
    built,      \* the constructor returned (no exception)
    self,       \* the instance
    pre,        \* the instance before the last mutating call
    call,       \* the last mutating call and its arguments
    prevOp,     \* the name of the mutating call before it
    err,        \* the exception the last mutating call raised, "" for none
    warned,     \* the last mutating call issued a warning
    rendered,   \* 1 when str(self) was called since the last mutating call
    out,        \* what the last such call returned
    outErr,     \* the exception it raised, "" for none
    printed,    \* what the last call, a pipe, printed
    written,    \* what the last call, a pipe, wrote to its file
    raisedAt,   \* the step of that pipe that raised, "" for none
    nops        \* mutating calls made so far

vars == <<variant, arg, built, self, pre, call, prevOp, err, warned,
          rendered, out, outErr, printed, written, raisedAt, nops>>

NoVal == PyStr("")

\* a call and its arguments; flags are the switches of pipe
CallWith(op, key, val, dict, reset, thresholds, flags) ==
    [op |-> op, key |-> key, val |-> val, dict |-> dict, reset |-> reset,
     thresholds |-> thresholds, flags |-> flags]

NoFlags ==
    [transpose |-> FALSE, given |-> FALSE, interpret_p |-> FALSE, print |-> FALSE, write |-> FALSE]

Call(op, key, val, dict, reset, thresholds) ==
    CallWith(op, key, val, dict, reset, thresholds, NoFlags)

Init ==
    \E k \in DOMAIN ConstructCalls : \E r \in {Construct(ConstructCalls[k][2])} :
            /\ variant = ConstructCalls[k][1]
            /\ arg = ConstructCalls[k][2]
            /\ built = (r.err = "")
            /\ self = r.st
            /\ pre = r.st
            /\ call = Call("init", "", NoVal, ConstructCalls[k][2].options, FALSE, <<>>)
            /\ prevOp = ""
            /\ err = r.err
            /\ warned = r.warn
            /\ rendered = 0
            /\ out = ""
            /\ outErr = ""
            /\ printed = ""
            /\ written = ""
            /\ raisedAt = ""
            /\ nops = 0

\* the bookkeeping every mutating call shares
Mutate(r, c) ==
    /\ built
    /\ nops < MaxOps
    /\ self' = r.st
    /\ pre' = self
    /\ call' = c
    /\ prevOp' = call.op
    /\ err' = r.err
    /\ warned' = r.warn
    /\ rendered' = 0
    /\ out' = ""
    /\ outErr' = ""
    /\ printed' = ""
    /\ written' = ""
    /\ raisedAt' = ""
    /\ nops' = nops + 1
    /\ UNCHANGED <<variant, arg, built>>

set_option(kv) ==
    Mutate(SetOption(self, kv[1], kv[2]), Call("set_option", kv[1], kv[2], <<>>, FALSE, <<>>))

set_options(dict) ==
    Mutate(SetOptions(self, dict), Call("set_options", "", NoVal, dict, FALSE, <<>>))

transpose ==
    Mutate(T(variant, self), Call("T", "", NoVal, <<>>, FALSE, <<>>))

interpret_p(reset, thresholds) ==
    Mutate(InterpretP(variant, self, reset, thresholds),
           Call("interpret_p", "", NoVal, <<>>, reset, thresholds))

\* str(self)
render ==
    \E r \in {Str(variant, self)} :
        /\ built
        /\ self' = r.st
        /\ rendered' = 1
        /\ out' = r.s
        /\ outErr' = r.err
        /\ UNCHANGED <<variant, arg, built, pre, call, prevOp, err, warned,
                       printed, written, raisedAt, nops>>

\* pipe(...): the package copy has no print and no write parameter, it
\* always prints and writes
pipe(p) ==
    \E r \in {Pipe(variant, self, p)} :
        /\ built
        /\ nops < MaxOps
        /\ variant = "package" => (p.print /\ p.write)
        /\ self' = r.st
        /\ pre' = self
        /\ call' = CallWith("pipe", "", NoVal, p.options, p.reset, p.thresholds,
                            [transpose |-> p.transpose, given |-> p.given,
                             interpret_p |-> p.interpret_p, print |-> p.print,
                             write |-> p.write])
        /\ prevOp' = call.op
        /\ err' = r.err
        /\ warned' = r.warn
        /\ rendered' = 0
        /\ out' = ""
        /\ outErr' = ""
        /\ printed' = r.printed
        /\ written' = r.written
        /\ raisedAt' = r.at
        /\ nops' = nops + 1
        /\ UNCHANGED <<variant, arg, built>>

Next ==
    \/ \E kv \in OptionChoices : set_option(kv)
    \/ \E dict \in DictChoices : set_options(dict)
    \/ transpose
    \/ \E reset \in BOOLEAN, thresholds \in ThresholdChoices : interpret_p(reset, thresholds)
    \/ \E p \in PipeChoices : pipe(p)
    \/ render

Spec == Init /\ [][Next]_vars

\* The column specification: instances of both copies built from one row
\* of 1..MaxCols cells under every alignment, every vline and a choice of
\* box values, with and without row labels, and then rendered.
ColumnBoxes == {"all", "none", "l", "r", "tb"}

ColumnOptions(a, v, b, ri) ==
    <<<<"align", PyStr(a)>>, <<"vline", PyStr(v)>>, <<"box", PyStr(b)>>,
      <<"row_index", PyBool(ri)>>>>

Cells(n) == [j \in 1..n |-> PyIntV(j)]

ColumnCalls ==
    {Input(1, Cells(n), None, None, ColumnOptions(a, v, b, ri)) :
        n \in 1..MaxCols, a \in {"c", "l", "r", "p", "m", "b"},
        v \in {"all", "index", "none"}, b \in ColumnBoxes, ri \in BOOLEAN}

ColumnInit ==
    \E v \in {"module", "package"} : \E inp \in ColumnCalls : \E r \in {Construct(inp)} :
            /\ variant = v
            /\ arg = inp
            /\ built = (r.err = "")
            /\ self = r.st
            /\ pre = r.st
            /\ call = Call("init", "", NoVal, inp.options, FALSE, <<>>)
            /\ prevOp = ""
            /\ err = r.err
            /\ warned = r.warn
            /\ rendered = 0
            /\ out = ""
            /\ outErr = ""
            /\ printed = ""
            /\ written = ""
            /\ raisedAt = ""
            /\ nops = 0

ColumnNext == render

ColumnSpec == ColumnInit /\ [][ColumnNext]_vars

----------------------------------------------------------------------------
(* Properties *)

\* __validate accepts the state
Validated(st) == Validate(st).err = ""

\* s.split(sep)
RECURSIVE Split(_, _)
Split(s, sep) ==
    LET p == Find(s, sep)
    IN  IF p = 0 THEN <<s>>
        ELSE <<SubSeq(s, 1, p - 1)>> \o Split(SubSeq(s, p + Len(sep), Len(s)), sep)

\* s.lstrip(' ')
RECURSIVE LStrip(_)
LStrip(s) == IF StartsWith(s, " ") THEN LStrip(Tail(s)) ELSE s

IsTrue(v) == v = PyBool(TRUE)

\* the lines of a rendered string that end with the row terminator
RowLines(s) == SelectSeq(Split(s, "\n"), LAMBDA l : EndsWith(l, " \\\\"))

\* the delimiter-separated fields of such a line
Fields(l) == Split(SubSeq(l, 1, Len(l) - 3), " & ")

\* C1: two transpose calls in a row, starting from a validated state, leave
\* the grid, both label lists and every option value as they were before
\* the first call.
C1_TransposeRoundTrip ==
    [][(call.op = "T" /\ rendered = 0 /\ Validated(pre) /\ transpose)
        => /\ self'.table = pre.table
           /\ self'.row_index = pre.row_index
           /\ self'.col_index = pre.col_index
           /\ self'.options = pre.options]_vars

C3_RenderPure ==
    [][render => /\ self' = self
                 /\ (rendered >= 1 => (out' = out /\ outErr' = outErr))]_vars

\* C4: a set_option or set_options call that stores an hline outside
\* {all, header, none}, a vline outside {all, index, none} or a box that is
\* neither all nor none and has none of t, b, l, r raises ValueError,
\* whatever the other options hold.
Rejected(key, val) ==
    \/ key = "hline" /\ ~InStrs(val, {"all", "header", "none"})
    \/ key = "vline" /\ ~InStrs(val, {"all", "index", "none"})
    \/ key = "box" /\ val.t = "str" /\ ~InStrs(val, {"all", "none"})
       /\ \A side \in {"t", "b", "l", "r"} : Find(val.s, side) = 0

C4_StructuralRejection ==
    /\ (call.op = "set_option" /\ Rejected(call.key, call.val)) => err = "ValueError"
    /\ (call.op = "set_options"
        /\ \E i \in 1..Len(call.dict) : Rejected(call.dict[i][1], call.dict[i][2]))
       => err = "ValueError"

\* C5: set_option with a key that is no option name raises nothing, warns
\* and leaves the instance as it was; set_options skips such a key (the
\* options keep their 15 names) and still stores the known keys of the call.
C5_UnknownKeys ==
    /\ (call.op = "set_option" /\ rendered = 0 /\ call.key \notin OptionNames)
       => (err = "" /\ warned /\ self = pre)
    /\ (call.op = "set_options" /\ rendered = 0
        /\ \E i \in 1..Len(call.dict) : call.dict[i][1] \notin OptionNames)
       => /\ DOMAIN self.options = OptionNames
          /\ warned
          /\ \A i \in 1..Len(call.dict) :
                call.dict[i][1] \in OptionNames
                => self.options[call.dict[i][1]] = call.dict[i][2]

C5_Witness ==
    /\ call.op = "set_options" /\ rendered = 0 /\ warned /\ err = ""
    /\ \E i \in 1..Len(call.dict) : call.dict[i][1] = "colour"
    /\ self.options["hline"] = PyStr("none") /\ pre.options["hline"] = PyStr("all")

\* C6: [[1, 2, 3], [4, 5, 6]] with both index displays off and every other
\* option at its default renders as the tabular directive with column
\* specification ccc, a rule, the two rows, a rule and the closing
\* directive, with nothing before the directive, no indentation, no
\* vertical separator and no rule between the rows.
C6_ConcreteScenario ==
    (built /\ nops = 0 /\ rendered >= 1 /\ arg = Input(2, Ints23, None, None, NoIndex))
    => /\ outErr = ""
       /\ out = "\\begin{tabular}{ccc}\n\\hline\n1 & 2 & 3 \\\\\n4 & 5 & 6 \\\\\n\\hline\n\\end{tabular}\n"

\* C7: after interpret_p(reset = False, thresholds) every cell that parses
\* as a number v carries sig_char once per threshold t with v <= t, and
\* every other cell carries the empty marker.
C7_Significance ==
    (call.op = "interpret_p" /\ ~call.reset) =>
        \A i \in 1..NRows(self) : \A j \in 1..NCols(self) :
            LET f == FloatOf(self.table[i][j])
                n == Cardinality({k \in 1..Len(call.thresholds) : f.m <= call.thresholds[k]})
            IN  /\ i <= Len(self.sig)
                /\ j <= Len(self.sig[i])
                /\ self.sig[i][j] = IF f.ok THEN Repeat(self.options["sig_char"].s, n) ELSE ""

AllEscaped(s) ==
    \A p \in 1..Len(s) : CharAt(s, p) = "_" => (p > 1 /\ CharAt(s, p - 1) = "\\")

HasUnderscore(s) == Find(s, "_") # 0

\* C8: in every rendered output each underscore follows a backslash, and
\* every underscore of a row label, a column label or a cell of the state
\* is in the output in that escaped form, whatever the options are.
C8_UnderscoreEscaping ==
    (built /\ rendered >= 1 /\ outErr = "") =>
        /\ AllEscaped(out)
        /\ \A i \in 1..Len(self.row_index) :
              HasUnderscore(self.row_index[i]) => Find(out, Escape(self.row_index[i])) # 0
        /\ \A j \in 1..Len(self.col_index) :
              HasUnderscore(self.col_index[j]) => Find(out, Escape(self.col_index[j])) # 0
        /\ \A i \in 1..NRows(self) : \A j \in 1..NCols(self) :
              HasUnderscore(self.table[i][j]) => Find(out, Escape(self.table[i][j])) # 0

\* C8 as amended: each underscore of the output follows a backslash, and
\* the output holds the escaped form of every label that is displayed (the
\* row labels of the rows when row_index is on, the column labels when
\* col_index is on) and of every cell as the rounding step formats it.
C8_EscapingDisplayed ==
    (built /\ rendered >= 1 /\ outErr = "") =>
        /\ AllEscaped(out)
        /\ Truthy(self.options["row_index"])
           => \A i \in 1..NRows(self) : Find(out, Escape(self.row_index[i])) # 0
        /\ Truthy(self.options["col_index"])
           => \A j \in 1..Len(self.col_index) : Find(out, Escape(self.col_index[j])) # 0
        /\ \A i \in 1..NRows(self) : \A j \in 1..NCols(self) :
              Find(out, Escape(Round(self.options, self.table[i][j]))) # 0

C8_Witness ==
    /\ built /\ rendered >= 1 /\ outErr = ""
    /\ Truthy(self.options["row_index"]) /\ Truthy(self.options["col_index"])
    /\ HasUnderscore(self.row_index[1]) /\ HasUnderscore(self.col_index[1])
    /\ \E i \in 1..NRows(self) : \E j \in 1..NCols(self) : HasUnderscore(self.table[i][j])
    /\ Find(out, "r\\_1") # 0

\* C9: a 1-D input of length N gives a grid of one row and N columns, a
\* 1 x N marker list, one generated row label and N generated column labels,
\* and its render has one data row with the N cells, as __round formats
\* them, in input order.
C9_OneDimPromotion ==
    (built /\ nops = 0 /\ arg.ndim = 1) =>
        LET N == Len(arg.table)
            hdr == IF Truthy(self.options["col_index"]) THEN 1 ELSE 0
            lab == IF Truthy(self.options["row_index"]) THEN 1 ELSE 0
        IN  /\ NRows(self) = 1
            /\ NCols(self) = N
            /\ \A j \in 1..N : self.table[1][j] = AsStr(arg.table[j])
            /\ Len(self.sig) = 1 /\ Len(self.sig[1]) = N
            /\ ~arg.row_index.given => Len(self.row_index) = 1
            /\ ~arg.col_index.given => Len(self.col_index) = N
            /\ (rendered >= 1 /\ outErr = "")
               => /\ Len(RowLines(out)) = 1 + hdr
                  /\ \A j \in 1..N :
                        LStrip(Fields(RowLines(out)[1 + hdr])[lab + j])
                            = Escape(Round(self.options, AsStr(arg.table[j])))

C9_Witness ==
    /\ built /\ nops = 0 /\ arg.ndim = 1 /\ ~arg.row_index.given
    /\ rendered >= 1 /\ outErr = ""
    /\ NRows(self) = 1 /\ NCols(self) = 3

\* C10: in every state of a constructed table, row_index on means as many
\* row labels as rows and col_index on means as many column labels as
\* columns.
C10_LabelLengths ==
    built =>
        /\ Truthy(self.options["row_index"]) => Len(self.row_index) = NRows(self)
        /\ Truthy(self.options["col_index"]) => Len(self.col_index) = NCols(self)

\* C11: in every state of a constructed table the significance matrix has
\* the shape of the grid: as many rows, and in every row as many entries as
\* the grid has columns.
C11_SigShape ==
    built =>
        /\ Len(self.sig) = NRows(self)
        /\ \A i \in 1..Len(self.sig) : Len(self.sig[i]) = NCols(self)

\* the options T exchanges in pairs
PairedOptions ==
    {"row_index", "col_index", "bold_row_index", "bold_col_index",
     "row_index_start", "col_index_start"}

\* C12: a transpose call that returns leaves the grid transposed
\* (Grid'[j][i] = Grid[i][j]), the two label lists exchanged, the values of
\* row_index/col_index, bold_row_index/bold_col_index and
\* row_index_start/col_index_start exchanged, and every other option as it
\* was.
C12_TransposeEffect ==
    [][(transpose /\ err' = "") =>
          /\ NRows(self') = NCols(self) /\ NCols(self') = NRows(self)
          /\ \A i \in 1..NRows(self) : \A j \in 1..NCols(self) :
                self'.table[j][i] = self.table[i][j]
          /\ self'.row_index = self.col_index
          /\ self'.col_index = self.row_index
          /\ self'.options["row_index"] = self.options["col_index"]
          /\ self'.options["col_index"] = self.options["row_index"]
          /\ self'.options["bold_row_index"] = self.options["bold_col_index"]
          /\ self'.options["bold_col_index"] = self.options["bold_row_index"]
          /\ self'.options["row_index_start"] = self.options["col_index_start"]
          /\ self'.options["col_index_start"] = self.options["row_index_start"]
          /\ \A k \in OptionNames \ PairedOptions : self'.options[k] = self.options[k]]_vars

\* the value the options argument opts of the constructor holds for key,
\* the default when it has none
OptionGiven(opts, key) ==
    IF \E i \in 1..Len(opts) : opts[i][1] = key
    THEN opts[CHOOSE i \in 1..Len(opts) : opts[i][1] = key][2]
    ELSE DefaultOptions[key]

\* [start, start + 1, ..., start + n - 1] as strings
Counting(start, n) == [i \in 1..n |-> IntToStr(start + i - 1)]

\* C13: after a construction without explicit labels (and a plain list as
\* input) the row labels are s, s+1, ..., s+R-1 and the column labels are
\* t, t+1, ..., t+C-1 as strings, s and t being the row_index_start and
\* col_index_start passed in the options, 1 when not passed.
C13_GeneratedLabels ==
    (built /\ nops = 0) =>
        /\ ~arg.row_index.given =>
              self.row_index =
                  Counting(IntOf(OptionGiven(arg.options, "row_index_start")).n, NRows(self))
        /\ ~arg.col_index.given =>
              self.col_index =
                  Counting(IntOf(OptionGiven(arg.options, "col_index_start")).n, NCols(self))

\* the options that hold an integer
IntegerOptions == {"row_index_start", "col_index_start", "round", "tab_indent"}

\* the values the call c stores for the option key: the argument of
\* set_option, the items of the dict of set_options or of the constructor
ValuesSet(c, key) ==
    IF c.op = "set_option" THEN (IF c.key = key THEN {c.val} ELSE {})
    ELSE {c.dict[i][2] : i \in {i \in 1..Len(c.dict) : c.dict[i][1] = key}}

\* C14: after a construction, set_option or set_options call that raises
\* nothing, row_index_start, col_index_start, round and tab_indent each hold
\* an int; and such a call raises ValueError when it sets one of the four to
\* a value int() rejects, whether or not the labels are shown.
C14_IntegerOptions ==
    (rendered = 0 /\ call.op \in {"init", "set_option", "set_options"}) =>
        /\ err = "" => \A k \in IntegerOptions : self.options[k].t = "int"
        /\ \A k \in IntegerOptions : \A v \in ValuesSet(call, k) :
                ~IntOf(v).ok => err = "ValueError"

\* C15: a set_option or set_options call that stores a value other than
\* True or False in make_ints raises ValueError, whatever round is; one that
\* stores such a value in bold_row_index (bold_col_index) raises ValueError
\* when row_index (col_index) is on.
C15_BooleanOptions ==
    (rendered = 0 /\ call.op \in {"set_option", "set_options"}) =>
        /\ \A v \in ValuesSet(call, "make_ints") :
                ~InTrueFalse(v) => err = "ValueError"
        /\ \A v \in ValuesSet(call, "bold_row_index") :
                (~InTrueFalse(v) /\ Truthy(self.options["row_index"])) => err = "ValueError"
        /\ \A v \in ValuesSet(call, "bold_col_index") :
                (~InTrueFalse(v) /\ Truthy(self.options["col_index"])) => err = "ValueError"

\* every dimension of the 3-D input beyond the second has length one
TrailingOnes(inp) ==
    \A i \in 1..Len(inp.table) : \A j \in 1..Len(inp.table[i]) : Len(inp.table[i][j]) = 1

\* C16: a construction from an input of 3 dimensions succeeds with the
\* squeezed 2-D grid when the third dimension has length one, and raises
\* ValueError when it is longer.
C16_DimensionPolicy ==
    (nops = 0 /\ arg.ndim >= 3) =>
        IF TrailingOnes(arg)
        THEN /\ built
             /\ NRows(self) = Len(arg.table)
             /\ \A i \in 1..Len(arg.table) :
                    self.table[i] = [j \in 1..Len(arg.table[i]) |-> AsStr(arg.table[i][j][1])]
        ELSE ~built /\ err = "ValueError"

\* the last call ran interpret_p with reset=True, as the call itself or as
\* the interpretation step of pipe
ResetRan ==
    \/ call.op = "interpret_p" /\ call.reset
    \/ /\ call.op = "pipe" /\ call.flags.interpret_p /\ call.reset
       /\ raisedAt \notin {"T", "set_options"}

\* C17: after interpret_p(reset=True), whatever calls came before it, every
\* entry of the significance matrix is the empty string and the grid is the
\* one the call found.
C17_ResetClears ==
    (built /\ ResetRan) =>
        /\ \A i \in 1..Len(self.sig) : \A j \in 1..Len(self.sig[i]) : self.sig[i][j] = ""
        /\ self.table = IF call.flags.transpose THEN Transposed(pre.table) ELSE pre.table

\* the text of a rendered field before the marker mk
BeforeMarker(field, mk) == SubSeq(field, 1, Len(field) - Len(Escape(mk)))

\* the float f, rounded to nd decimals, has no fractional part
WholeNumber(f, nd) == f.e > 0 \/ RoundTo(f.m, nd) % Scale = 0

\* t is the text rendered for the cell c under the options o, f being
\* float(c): c itself when round is negative or c is no number; otherwise
\* the value rounded to round decimals, written as an integer literal when
\* it is whole and make_ints is True, with its ".0" when make_ints is False
CellFormatted(o, c, f, t) ==
    IF o["round"].n < 0 \/ ~f.ok THEN t = Escape(c)
    ELSE /\ f.e = 0 => (FloatOf(t).ok /\ FloatOf(t).m = RoundTo(f.m, o["round"].n))
         /\ (WholeNumber(f, o["round"].n) /\ IsTrue(o["make_ints"])) => AllDigits(t)
         /\ (WholeNumber(f, o["round"].n) /\ o["make_ints"] = PyBool(FALSE))
                => EndsWith(t, ".0")

\* C18: in every render that returns, each cell is shown as stored when
\* round is negative or the cell is no number, and otherwise rounded to
\* round decimals, as an integer literal when the rounded value is whole
\* and make_ints is on, with the trailing ".0" when make_ints is off.
C18_CellFormatting ==
    (built /\ rendered = 1 /\ outErr = "") =>
        \A i \in 1..NRows(self) : \A j \in 1..NCols(self) :
            CellFormatted(self.options, self.table[i][j], FloatOf(self.table[i][j]),
                BeforeMarker(
                    LStrip(Fields(RowLines(out)[(IF Truthy(self.options["col_index"])
                                                 THEN 1 ELSE 0) + i])
                               [(IF Truthy(self.options["row_index"]) THEN 1 ELSE 0) + j]),
                    self.sig[i][j]))

\* the text mk is made of the character ch only
MadeOf(mk, ch) == mk = Repeat(ch, Len(mk) \div Len(ch))

\* C19: a pipe call whose transpose and option steps raise nothing, on a
\* table that can be rendered afterwards, returns self; the options it was
\* given hold in the transposed table (an option of a pair that it does not
\* set has the value its partner had before the call); the markers it
\* computed are made of the sig_char it was given; and the text it printed
\* and the text it wrote are the render of the table it leaves.
C19_PipelineOrder ==
    (built /\ rendered = 0 /\ call.op = "pipe" /\ raisedAt \notin {"T", "set_options"}) =>
        \E r \in {Str(variant, self)} :
            r.err = "" =>
                /\ err = ""
                /\ call.flags.print => printed = r.s
                /\ call.flags.write => written = r.s
                /\ (call.flags.transpose /\ call.flags.given /\ call.dict = Plus) =>
                        /\ self.options["row_index"] = PyBool(FALSE)
                        /\ self.options["col_index"] = pre.options["row_index"]
                /\ (call.flags.interpret_p /\ ~call.reset /\ call.flags.given
                    /\ call.dict = Plus) =>
                        \A i \in 1..NRows(self) : \A j \in 1..NCols(self) :
                            MadeOf(self.sig[i][j], "+")

\* a line of the output that is a horizontal rule
IsRule(l) == LStrip(l) = "\\hline"

\* the places, among the lines L, of those that end with the row terminator
RowsAt(L) == {k \in 1..Len(L) : EndsWith(L[k], " \\\\")}

\* the places of the data rows: all of rows but the header, which comes first
DataAt(o, rows) == IF Truthy(o["col_index"]) THEN rows \ {Least(rows)} ELSE rows

\* no two rule lines in a row
NoDoubleRule(L) == \A k \in 1..(Len(L) - 1) : ~(IsRule(L[k]) /\ IsRule(L[k + 1]))

\* with a bottom border the line before the closing directive is a rule
BottomRuled(o, L) ==
    BoxHas(o, "b") => \A k \in 2..Len(L) : L[k] = "\\end{tabular}" => IsRule(L[k - 1])

\* the header line is followed by a rule iff hline is header or all
HeaderRuled(o, L, rows) ==
    Truthy(o["col_index"]) =>
        (IsRule(L[Least(rows) + 1]) <=> InStrs(o["hline"], {"header", "all"}))

\* every data row is followed by a rule iff hline is all
RowsRuled(o, L, data) == \A k \in data : IsRule(L[k + 1]) <=> IsStr(o["hline"], "all")

\* a data row is followed by a rule iff hline is all or it is the last one
\* and there is a bottom border
RowsRuledWithin(o, L, data) ==
    \A k \in data :
        IsRule(L[k + 1]) <=>
            (IsStr(o["hline"], "all") \/ (BoxHas(o, "b") /\ \A m \in data : m <= k))

\* hline and box hold values __validate accepts
ValidRules(o) == InStrs(o["hline"], {"all", "header", "none"}) /\ o["box"].t = "str" /\ ValidBox(o["box"])

----------------------------------------------------------------------------
(* The column specification *)

\* the text between the braces that follow \begin{tabular}
TabularLine(s) == Split(s, "\n")[4]

ColumnSpecOf(s) == SubSeq(TabularLine(s), 17, Len(TabularLine(s)) - 1)

\* the texts around the alignment tokens of a column specification, a
\* token being the alignment character and the measure in braces, if any
Separators(o, cs) == Split(Replace(cs, "{" \o o["measure"].s \o "}", ""), o["align"].s)

\* align, measure, vline and box hold values __validate accepts
ValidColumns(o) ==
    /\ InStrs(o["align"], {"c", "l", "r", "p", "m", "b"})
    /\ o["measure"].t = "str"
    /\ InStrs(o["vline"], {"all", "index", "none"})
    /\ o["box"].t = "str" /\ ValidBox(o["box"])

ShownRowIndex(o) == IF Truthy(o["row_index"]) THEN 1 ELSE 0

----------------------------------------------------------------------------
(* Failure atomicity *)

\* the last call was set_option or set_options and it raised
SettingRaised == call.op \in {"set_option", "set_options"} /\ err # ""

\* C22: after a set_option or set_options call that raised, the options,
\* the grid, the labels and the significance matrix are what they were
\* before the call, and a render that returns after it has used an hline,
\* a vline and a box of their domains.
C22_FailureAtomicity ==
    (built /\ SettingRaised) =>
        /\ rendered = 0 => self = pre
        /\ (rendered = 1 /\ outErr = "") =>
               /\ ValidRules(self.options)
               /\ InStrs(self.options["vline"], {"all", "index", "none"})

----------------------------------------------------------------------------
(* Markers and transposition *)

\* the field the rendered text s shows at data row i, column j
FieldAt(o, s, i, j) ==
    LStrip(Fields(RowLines(s)[(IF Truthy(o["col_index"]) THEN 1 ELSE 0) + i])
               [(IF Truthy(o["row_index"]) THEN 1 ELSE 0) + j])

\* the last two calls were interpret_p and then a transpose that returned
TransposedAfterMarking == prevOp = "interpret_p" /\ call.op = "T" /\ err = ""

\* C23: in a render that returns after interpret_p and a following
\* transpose, the cell that was at row i, column j is shown at row j,
\* column i followed by the marker interpret_p gave it.
C23_MarkersFollowCells ==
    (built /\ rendered = 1 /\ outErr = "" /\ TransposedAfterMarking) =>
        \A i \in 1..NRows(pre) : \A j \in 1..NCols(pre) :
            FieldAt(self.options, out, j, i)
                = Escape(Round(self.options, pre.table[i][j]) \o pre.sig[i][j])

----------------------------------------------------------------------------
(* Totality of the render *)

\* the table was constructed and at most one call was made on it, a
\* set_option, set_options, transpose or interpret_p call that returned
ReturnedCalls ==
    /\ built
    /\ nops <= 1
    /\ call.op \in {"init", "set_option", "set_options", "T", "interpret_p"}
    /\ err = ""

\* C24: a render of a table on which every call so far returned without
\* error returns a string and raises nothing.
C24_RenderTotal == (ReturnedCalls /\ rendered = 1) => outErr = ""

====
